---------------------------- MODULE Spec2Model ----------------------------
(***************************************************************************)
(* DSNToDoApp: the daily rollover (DailyOps.prepare_today) and the thin    *)
(* CRUD surface around it, as a state machine over the remote record       *)
(* store.  The store holds the collections tasks, journal_pages and       *)
(* contexts; one step of a prepare_today run is one blocking HTTP call     *)
(* together with the local computation that follows it up to the next      *)
(* call.                                                                   *)
(*                                                                         *)
(* Dates are day numbers (day 0 is a Monday); date.isoformat and           *)
(* date.fromisoformat are order-preserving bijections between day numbers  *)
(* and "YYYY-MM-DD" texts, so a date text is its day number.  A timestamp  *)
(* "YYYY-MM-DD hh:mm:ssZ" is a pair <<day, second of day>>.  Recurrence    *)
(* texts are sequences of one-character strings, and the matcher works on  *)
(* them character by character as the Python string methods do.            *)
(***************************************************************************)
EXTENDS Integers, Sequences, FiniteSets, TLC

(***************************************************************************)
(* Bounds of the model.                                                    *)
(***************************************************************************)
MaxDay == 2
MaxRuns == 4
MaxUiOps == 1
MaxFails == 1
MatchRuns == 1
ConcRuns == 1
EvRuns == 2
AppLaunches == 2
CtxOps == 2

(***************************************************************************)
(* Python str methods on sequences of characters.                          *)
(***************************************************************************)
LowerChars == <<"a","b","c","d","e","f","g","h","i","j","k","l","m",
                "n","o","p","q","r","s","t","u","v","w","x","y","z">>
UpperChars == <<"A","B","C","D","E","F","G","H","I","J","K","L","M",
                "N","O","P","Q","R","S","T","U","V","W","X","Y","Z">>

\* str.upper on one character
UpperChar(c) ==
    IF \E i \in 1..Len(LowerChars) : LowerChars[i] = c
    THEN UpperChars[CHOOSE i \in 1..Len(LowerChars) : LowerChars[i] = c]
    ELSE c

\* str.upper
Upper(s) == [i \in 1..Len(s) |-> UpperChar(s[i])]

\* str.startswith
StartsWith(s, pre) ==
    /\ Len(s) >= Len(pre)
    /\ SubSeq(s, 1, Len(pre)) = pre

\* sub in s
Contains(s, sub) ==
    \E i \in 1..(Len(s) - Len(sub) + 1) : SubSeq(s, i, i + Len(sub) - 1) = sub

\* str.split(sep) for a one-character separator: always at least one part
RECURSIVE Split(_, _)
Split(s, sep) ==
    IF \A i \in 1..Len(s) : s[i] # sep
    THEN <<s>>
    ELSE LET i == CHOOSE k \in 1..Len(s) :
                      /\ s[k] = sep
                      /\ \A j \in 1..(k - 1) : s[j] # sep
         IN  <<SubSeq(s, 1, i - 1)>> \o Split(SubSeq(s, i + 1, Len(s)), sep)

\* str.replace(old, ""): every non-overlapping occurrence, left to right
RECURSIVE Remove(_, _)
Remove(s, old) ==
    IF Len(s) < Len(old) \/ Len(s) = 0
    THEN s
    ELSE IF StartsWith(s, old)
         THEN Remove(SubSeq(s, Len(old) + 1, Len(s)), old)
         ELSE <<Head(s)>> \o Remove(Tail(s), old)

IsSpace(c) == c \in {" ", "\t", "\n", "\r"}

\* str.strip
RECURSIVE Strip(_)
Strip(s) ==
    IF s = <<>> THEN s
    ELSE IF IsSpace(Head(s)) THEN Strip(Tail(s))
    ELSE IF IsSpace(s[Len(s)]) THEN Strip(SubSeq(s, 1, Len(s) - 1))
    ELSE s

SeqToSet(q) == {q[i] : i \in 1..Len(q)}

(***************************************************************************)
(* Texts the code names.                                                   *)
(***************************************************************************)
sFreqWeekly == <<"F","R","E","Q","=","W","E","E","K","L","Y">>
sByDayEq == <<"B","Y","D","A","Y","=">>
MO == <<"M","O">>
TU == <<"T","U">>
WE == <<"W","E">>
TH == <<"T","H">>
FR == <<"F","R">>
SA == <<"S","A">>
SU == <<"S","U">>
weekday_map == <<MO, TU, WE, TH, FR, SA, SU>>

\* date.weekday(): Monday is 0; day 0 of the model is a Monday
Weekday(day) == day % 7

today_token(today) == weekday_map[Weekday(today) + 1]

(***************************************************************************)
(* The recurrence matcher of phase 3.                                      *)
(***************************************************************************)
\* [p.strip() for p in part.replace("BYDAY=", "").split(",") if p.strip()]
ByDayList(part) ==
    LET raw == Split(Remove(part, sByDayEq), ",")
        stripped == [i \in 1..Len(raw) |-> Strip(raw[i])]
    IN  SelectSeq(stripped, LAMBDA x : x # <<>>)

\* the loop over rrule.split(";"): the last part starting with BYDAY= wins
RECURSIVE ByDayLoop(_, _)
ByDayLoop(parts, byday) ==
    IF parts = <<>> THEN byday
    ELSE ByDayLoop(Tail(parts),
                   IF StartsWith(Head(parts), sByDayEq)
                   THEN ByDayList(Head(parts))
                   ELSE byday)

byday(rrule) == ByDayLoop(Split(rrule, ";"), <<>>)

\* IsDue without the .upper() of the recurrence text
IsDueNoUpper(recurrence, today) ==
    /\ Contains(recurrence, sFreqWeekly)
    /\ ~ ( /\ byday(recurrence) # <<>>
           /\ today_token(today) \notin SeqToSet(byday(recurrence)) )

\* a routine passes both `continue` tests of the loop body
IsDue(recurrence, today) ==
    LET rrule == Upper(recurrence)
    IN  /\ Contains(rrule, sFreqWeekly)
        /\ ~ ( /\ byday(rrule) # <<>>
               /\ today_token(today) \notin SeqToSet(byday(rrule)) )


(***************************************************************************)
(* The record store.                                                       *)
(***************************************************************************)
Self == "u1"
Other == "u2"
Procs == {1, 2}
Days == 1..MaxDay

\* Python None / an empty field of the record
None == -1
NoTs == <<None, 0>>

\* the last second the event window of phase 4 names: 23:59:59
EndOfDaySec == 86399

VARIABLES
    tasks,      \* the tasks collection, in creation order; a task's id is its index
    pages,      \* the journal_pages collection, in creation order
    run,        \* per application instance: the prepare_today invocation in progress
    budget,     \* operations the model may still start
    contexts,   \* the contexts collection, in creation order
    app,        \* the process started by main(): its client, controller and window
    realtime    \* the realtime refresh of the single-file script's window

storeVars == <<tasks, pages>>
appVars == <<contexts, app, realtime>>
vars == <<tasks, pages, run, budget, contexts, app, realtime>>

\* ToDoApp.__init__: the lock is free, _rt_pending is False, no after() timer
\* is set, the websocket thread waits for a message and the main loop for an
\* event.  unsynced and coalesced are history: a message has been received
\* and no sync_all has started since; the last message found the flag set.
RtStart ==
    [pending |-> FALSE, lock |-> "free", scheduled |-> 0, exists |-> TRUE,
     ws |-> "idle", main |-> "loop", unsynced |-> FALSE, coalesced |-> FALSE,
     msgs |-> 0]

\* chronological order of timestamps <<day, second>>
TsLe(a, b) == a[1] < b[1] \/ (a[1] = b[1] /\ a[2] <= b[2])
TsLt(a, b) == a[1] < b[1] \/ (a[1] = b[1] /\ a[2] < b[2])

Min(S) == CHOOSE x \in S : \A y \in S : x <= y

RECURSIVE SortedSeq(_)
SortedSeq(S) == IF S = {} THEN <<>> ELSE <<Min(S)>> \o SortedSeq(S \ {Min(S)})

\* the items of a list response: the matching records with their ids, in store order
Items(ids) == [k \in 1..Len(SortedSeq(ids)) |->
                  [id |-> SortedSeq(ids)[k], t |-> tasks[SortedSeq(ids)[k]]]]

\* PageFilter matching the date by its exact text, as date = "<D>" does
PageFilterExact(pg, user, date_iso) ==
    /\ pg.owner = user
    /\ pg.date = <<date_iso, 0>>

\* PageFilter with the end of the window included
PageFilterClosedWindow(pg, user, date_iso) ==
    /\ pg.owner = user
    /\ TsLe(<<date_iso, 0>>, pg.date)
    /\ TsLe(pg.date, <<date_iso + 1, 0>>)

\* owner = "<user>" && date >= "<D> 00:00:00Z" && date < "<D+1> 00:00:00Z"
PageFilter(pg, user, date_iso) ==
    /\ pg.owner = user
    /\ TsLe(<<date_iso, 0>>, pg.date)
    /\ TsLt(pg.date, <<date_iso + 1, 0>>)

PageHits(user, date_iso) ==
    {i \in 1..Len(pages) : PageFilter(pages[i], user, date_iso)}

\* PageUniqueViolation without the index
PageUniqueViolationNoIndex(payload) == FALSE

\* CREATE UNIQUE INDEX idx_jp_owner_date ON journal_pages (owner, date)
PageUniqueViolation(payload) ==
    \E i \in 1..Len(pages) :
        /\ pages[i].owner = payload.owner
        /\ pages[i].date = payload.date

\* MigFilter without the kind clause
MigFilterAnyKind(t, user, y_iso) ==
    /\ t.owner = user
    /\ t.status = "open"
    /\ t.journal_date = y_iso

\* MigFilter without the owner clause
MigFilterAnyOwner(t, user, y_iso) ==
    /\ t.status = "open"
    /\ t.journal_date = y_iso
    /\ t.kind = "todo"

\* owner = "<user>" && status = "open" && journal_date = "<yesterday>" && kind = "todo"
MigFilter(t, user, y_iso) ==
    /\ t.owner = user
    /\ t.status = "open"
    /\ t.journal_date = y_iso
    /\ t.kind = "todo"

\* (t.get("migrated_count") or 0) + 1
migrated(t) == (IF t.migrated_count \in {None, 0} THEN 0 ELSE t.migrated_count) + 1

\* owner = "<user>" && kind = "routine" && recurrence != ""
RoutineFilter(t, user) ==
    /\ t.owner = user
    /\ t.kind = "routine"
    /\ t.recurrence # <<>>

\* owner = "<user>" && parent_task = "<routine id>" && journal_date = "<today>"
ChildFilter(t, user, rid, today_iso) ==
    /\ t.owner = user
    /\ t.parent_task = rid
    /\ t.journal_date = today_iso

\* EventFilter with the window running to the next midnight
EventFilterWholeDay(t, user, today_iso) ==
    /\ t.owner = user
    /\ t.kind = "event"
    /\ TsLe(<<today_iso, 0>>, t.start_at)
    /\ TsLt(t.start_at, <<today_iso + 1, 0>>)

\* owner = "<user>" && kind = "event" && start_at >= "<D> 00:00:00Z" && start_at < "<D> 23:59:59Z"
EventFilter(t, user, today_iso) ==
    /\ t.owner = user
    /\ t.kind = "event"
    /\ TsLe(<<today_iso, 0>>, t.start_at)
    /\ TsLt(t.start_at, <<today_iso, EndOfDaySec>>)

\* the ids a GET of the tasks collection answers with, per filter
MigHits(user, y_iso) ==
    {i \in 1..Len(tasks) : MigFilter(tasks[i], user, y_iso)}

RoutineHits(user) ==
    {i \in 1..Len(tasks) : RoutineFilter(tasks[i], user)}

ChildHits(user, rid, today_iso) ==
    {i \in 1..Len(tasks) : ChildFilter(tasks[i], user, rid, today_iso)}

EventHits(user, today_iso) ==
    {i \in 1..Len(tasks) : EventFilter(tasks[i], user, today_iso)}

\* a task record with every field the code reads or writes
BlankTask ==
    [owner |-> Self, status |-> "open", kind |-> "todo", title |-> "t",
     notes |-> "", priority |-> 0, context |-> "c1", journal_date |-> None,
     migrated_count |-> 0, parent_task |-> 0, recurrence |-> <<>>,
     start_at |-> NoTs, due_date |-> None, position |-> None]

\* InstancePayload with the position of the routine instead of 1.0
InstancePayloadKeepsPosition(rt, user, today_iso) ==
    [BlankTask EXCEPT
        !.title = rt.t.title,
        !.notes = rt.t.notes,
        !.status = "open",
        !.kind = "todo",
        !.priority = rt.t.priority,
        !.position = rt.t.position,
        !.context = rt.t.context,
        !.owner = user,
        !.journal_date = today_iso,
        !.parent_task = rt.id]

\* the payload phase 3 posts for routine rt
InstancePayload(rt, user, today_iso) ==
    [BlankTask EXCEPT
        !.title = rt.t.title,
        !.notes = rt.t.notes,
        !.status = "open",
        !.kind = "todo",
        !.priority = rt.t.priority,
        !.position = 1,
        !.context = rt.t.context,
        !.owner = user,
        !.journal_date = today_iso,
        !.parent_task = rt.id]

(***************************************************************************)
(* One prepare_today invocation.  Beside the position in the code (pc), the *)
(* date and the items of the loop at hand, a run records what it did: the  *)
(* calls it issued (log), the index in log of the first call that failed   *)
(* (failed_at, 0 for none), the store it began with (start, pages0), the   *)
(* tasks it migrated and created, and the same about the run before it.    *)
(***************************************************************************)
NoPrev ==
    [res |-> "none", today |-> 0, migrated |-> {}, created |-> {},
     start |-> <<>>, pages0 |-> <<>>]

Idle ==
    [pc |-> "idle", today |-> 0, items |-> <<>>, page |-> 0, log |-> <<>>,
     start |-> <<>>, pages0 |-> <<>>, migrated |-> {}, created |-> {},
     found |-> FALSE, conflict |-> FALSE, failed_at |-> 0, prev |-> NoPrev]

Running(r) == r.pc \notin {"idle", "done", "failed"}

\* self.user_id of the DailyOps an application instance constructs
user_id(p) == Self

\* the HTTP call a run is about to issue: the call site and the task it is
\* about (the task patched, or the routine whose instance is looked up or
\* created).  page_get, page_reget: GET journal_pages; page_post: POST
\* journal_pages; mig_get, rt_get, rt_chk, ev_get: GET tasks; mig_patch,
\* ev_patch: PATCH tasks/<id>; rt_post: POST tasks
PendingCall(r) ==
    [site |-> r.pc,
     id |-> IF r.pc \in {"mig_patch", "rt_chk", "rt_post", "ev_patch"}
            THEN Head(r.items).id ELSE 0]

\* the routines the loop of phase 3 skips before its next store call
RECURSIVE DropNotDue(_, _)
DropNotDue(items, today) ==
    IF items = <<>> THEN items
    ELSE IF IsDue(Head(items).t.recurrence, today) THEN items
    ELSE DropNotDue(Tail(items), today)

\* the events the loop of phase 4 skips before its next store call
RECURSIVE DropOnToday(_, _)
DropOnToday(items, today) ==
    IF items = <<>> THEN items
    ELSE IF Head(items).t.journal_date # today THEN items
    ELSE DropOnToday(Tail(items), today)

Begin(p, today) ==
    /\ ~ Running(run[p])
    /\ budget.runs > 0
    /\ budget' = [budget EXCEPT !.runs = @ - 1]
    /\ run' = [run EXCEPT ![p] =
                 [Idle EXCEPT !.pc = "page_get", !.today = today,
                              !.start = tasks, !.pages0 = pages,
                              !.prev = [res |-> run[p].pc, today |-> run[p].today,
                                        migrated |-> run[p].migrated,
                                        created |-> run[p].created,
                                        start |-> run[p].start,
                                        pages0 |-> run[p].pages0]]]
    /\ UNCHANGED <<storeVars, appVars>>

\* _ensure_page: the first query
PageGet(p) ==
    LET r == run[p]
        hits == PageHits(user_id(p), r.today)
        log == Append(r.log, PendingCall(r))
    IN  /\ r.pc = "page_get"
        /\ run' = [run EXCEPT ![p] =
                     IF hits # {}
                     THEN [r EXCEPT !.pc = "mig_get", !.page = Min(hits),
                                    !.found = TRUE, !.log = log]
                     ELSE [r EXCEPT !.pc = "page_post", !.log = log]]
        /\ UNCHANGED <<storeVars, budget, appVars>>

\* PagePost without the try: a conflict raises out of _ensure_page
PagePostNoTry(p) ==
    LET r == run[p]
        payload == [owner |-> user_id(p), date |-> <<r.today, 0>>]
        log == Append(r.log, PendingCall(r))
    IN  /\ r.pc = "page_post"
        /\ IF PageUniqueViolation(payload)
           THEN /\ run' = [run EXCEPT ![p] =
                             [r EXCEPT !.pc = "failed", !.conflict = TRUE,
                                       !.failed_at = Len(log), !.log = log]]
                /\ UNCHANGED pages
           ELSE /\ pages' = Append(pages, payload)
                /\ run' = [run EXCEPT ![p] =
                             [r EXCEPT !.pc = "mig_get", !.page = Len(pages) + 1,
                                       !.log = log]]
        /\ UNCHANGED <<tasks, budget, appVars>>

\* _ensure_page: the create; a uniqueness conflict raises into the except branch
PagePost(p) ==
    LET r == run[p]
        payload == [owner |-> user_id(p), date |-> <<r.today, 0>>]
        log == Append(r.log, PendingCall(r))
    IN  /\ r.pc = "page_post"
        /\ IF PageUniqueViolation(payload)
           THEN /\ run' = [run EXCEPT ![p] =
                             [r EXCEPT !.pc = "page_reget", !.conflict = TRUE,
                                       !.failed_at = Len(log), !.log = log]]
                /\ UNCHANGED pages
           ELSE /\ pages' = Append(pages, payload)
                /\ run' = [run EXCEPT ![p] =
                             [r EXCEPT !.pc = "mig_get", !.page = Len(pages) + 1,
                                       !.log = log]]
        /\ UNCHANGED <<tasks, budget, appVars>>

\* PageReget returning without a page instead of re-raising
PageRegetSwallow(p) ==
    LET r == run[p]
        hits == PageHits(user_id(p), r.today)
        log == Append(r.log, PendingCall(r))
    IN  /\ r.pc = "page_reget"
        /\ run' = [run EXCEPT ![p] =
                     IF hits # {}
                     THEN [r EXCEPT !.pc = "mig_get", !.page = Min(hits), !.log = log]
                     ELSE [r EXCEPT !.pc = "mig_get", !.log = log]]
        /\ UNCHANGED <<storeVars, budget, appVars>>

\* _ensure_page: the query of the except branch; nothing found re-raises
PageReget(p) ==
    LET r == run[p]
        hits == PageHits(user_id(p), r.today)
        log == Append(r.log, PendingCall(r))
    IN  /\ r.pc = "page_reget"
        /\ run' = [run EXCEPT ![p] =
                     IF hits # {}
                     THEN [r EXCEPT !.pc = "mig_get", !.page = Min(hits), !.log = log]
                     ELSE [r EXCEPT !.pc = "failed", !.log = log]]
        /\ UNCHANGED <<storeVars, budget, appVars>>

\* MigGet going on to phase 3 with the fetched tasks unpatched
MigGetSkipsPatches(p) ==
    LET r == run[p]
        items == Items(MigHits(user_id(p), r.today - 1))
    IN  /\ r.pc = "mig_get"
        /\ run' = [run EXCEPT ![p] =
                     [r EXCEPT !.pc = "rt_get",
                               !.items = items,
                               !.log = Append(r.log, PendingCall(r))]]
        /\ UNCHANGED <<storeVars, budget, appVars>>

\* phase 2: the query for yesterday's open todos
MigGet(p) ==
    LET r == run[p]
        items == Items(MigHits(user_id(p), r.today - 1))
    IN  /\ r.pc = "mig_get"
        /\ run' = [run EXCEPT ![p] =
                     [r EXCEPT !.pc = IF items = <<>> THEN "rt_get" ELSE "mig_patch",
                               !.items = items,
                               !.log = Append(r.log, PendingCall(r))]]
        /\ UNCHANGED <<storeVars, budget, appVars>>

\* MigPatch sending the count alone, without journal_date
MigPatchKeepDate(p) ==
    LET r == run[p]
        it == Head(r.items)
    IN  /\ r.pc = "mig_patch"
        /\ tasks' = [tasks EXCEPT ![it.id] =
                       [@ EXCEPT !.migrated_count = migrated(it.t)]]
        /\ run' = [run EXCEPT ![p] =
                     [r EXCEPT !.pc = IF Tail(r.items) = <<>> THEN "rt_get"
                                      ELSE "mig_patch",
                               !.items = Tail(r.items),
                               !.migrated = @ \cup {it.id},
                               !.log = Append(r.log, PendingCall(r))]]
        /\ UNCHANGED <<pages, budget, appVars>>

\* MigPatch moving the due date along with the journal date
MigPatchMovesDue(p) ==
    LET r == run[p]
        it == Head(r.items)
    IN  /\ r.pc = "mig_patch"
        /\ tasks' = [tasks EXCEPT ![it.id] =
                       [@ EXCEPT !.journal_date = r.today,
                                 !.due_date = r.today,
                                 !.migrated_count = migrated(it.t)]]
        /\ run' = [run EXCEPT ![p] =
                     [r EXCEPT !.pc = IF Tail(r.items) = <<>> THEN "rt_get"
                                      ELSE "mig_patch",
                               !.items = Tail(r.items),
                               !.migrated = @ \cup {it.id},
                               !.log = Append(r.log, PendingCall(r))]]
        /\ UNCHANGED <<pages, budget, appVars>>

\* MigPatch adding 1 to the count the store holds when the patch arrives
MigPatchIncrementsStored(p) ==
    LET r == run[p]
        it == Head(r.items)
    IN  /\ r.pc = "mig_patch"
        /\ tasks' = [tasks EXCEPT ![it.id] =
                       [@ EXCEPT !.journal_date = r.today,
                                 !.migrated_count = migrated(tasks[it.id])]]
        /\ run' = [run EXCEPT ![p] =
                     [r EXCEPT !.pc = IF Tail(r.items) = <<>> THEN "rt_get"
                                      ELSE "mig_patch",
                               !.items = Tail(r.items),
                               !.migrated = @ \cup {it.id},
                               !.log = Append(r.log, PendingCall(r))]]
        /\ UNCHANGED <<pages, budget, appVars>>

\* phase 2: the patch of one fetched task, with the count read by the query
MigPatch(p) ==
    LET r == run[p]
        it == Head(r.items)
    IN  /\ r.pc = "mig_patch"
        /\ tasks' = [tasks EXCEPT ![it.id] =
                       [@ EXCEPT !.journal_date = r.today,
                                 !.migrated_count = migrated(it.t)]]
        /\ run' = [run EXCEPT ![p] =
                     [r EXCEPT !.pc = IF Tail(r.items) = <<>> THEN "rt_get"
                                      ELSE "mig_patch",
                               !.items = Tail(r.items),
                               !.migrated = @ \cup {it.id},
                               !.log = Append(r.log, PendingCall(r))]]
        /\ UNCHANGED <<pages, budget, appVars>>

\* phase 3: the query for the routines
RtGet(p) ==
    LET r == run[p]
        items == DropNotDue(Items(RoutineHits(user_id(p))),
                            r.today)
    IN  /\ r.pc = "rt_get"
        /\ run' = [run EXCEPT ![p] =
                     [r EXCEPT !.pc = IF items = <<>> THEN "ev_get" ELSE "rt_chk",
                               !.items = items,
                               !.log = Append(r.log, PendingCall(r))]]
        /\ UNCHANGED <<storeVars, budget, appVars>>

\* RtChk going on to the create whatever the check answers
RtChkAlwaysCreates(p) ==
    LET r == run[p]
    IN  /\ r.pc = "rt_chk"
        /\ run' = [run EXCEPT ![p] =
                     [r EXCEPT !.pc = "rt_post",
                               !.log = Append(r.log, PendingCall(r))]]
        /\ UNCHANGED <<storeVars, budget, appVars>>

\* phase 3: the duplicate check for the routine at hand
RtChk(p) ==
    LET r == run[p]
        rt == Head(r.items)
        chk == ChildHits(user_id(p), rt.id, r.today)
        rest == DropNotDue(Tail(r.items), r.today)
        log == Append(r.log, PendingCall(r))
    IN  /\ r.pc = "rt_chk"
        /\ run' = [run EXCEPT ![p] =
                     IF chk # {}
                     THEN [r EXCEPT !.pc = IF rest = <<>> THEN "ev_get" ELSE "rt_chk",
                                    !.items = rest, !.log = log]
                     ELSE [r EXCEPT !.pc = "rt_post", !.log = log]]
        /\ UNCHANGED <<storeVars, budget, appVars>>

\* RtPost against a store that refuses a second child of the routine on the date
RtPostChecksAgain(p) ==
    LET r == run[p]
        rt == Head(r.items)
        rest == DropNotDue(Tail(r.items), r.today)
        chk == ChildHits(user_id(p), rt.id, r.today)
    IN  /\ r.pc = "rt_post"
        /\ tasks' = IF chk # {} THEN tasks
                    ELSE Append(tasks, InstancePayload(rt, user_id(p), r.today))
        /\ run' = [run EXCEPT ![p] =
                     [r EXCEPT !.pc = IF rest = <<>> THEN "ev_get" ELSE "rt_chk",
                               !.items = rest,
                               !.created = IF chk # {} THEN @
                                           ELSE @ \cup {Len(tasks) + 1},
                               !.log = Append(r.log, PendingCall(r))]]
        /\ UNCHANGED <<pages, budget, appVars>>

\* phase 3: the create of today's instance of the routine at hand
RtPost(p) ==
    LET r == run[p]
        rt == Head(r.items)
        rest == DropNotDue(Tail(r.items), r.today)
    IN  /\ r.pc = "rt_post"
        /\ tasks' = Append(tasks, InstancePayload(rt, user_id(p), r.today))
        /\ run' = [run EXCEPT ![p] =
                     [r EXCEPT !.pc = IF rest = <<>> THEN "ev_get" ELSE "rt_chk",
                               !.items = rest,
                               !.created = @ \cup {Len(tasks) + 1},
                               !.log = Append(r.log, PendingCall(r))]]
        /\ UNCHANGED <<pages, budget, appVars>>

\* phase 4: the query for today's events
EvGet(p) ==
    LET r == run[p]
        items == DropOnToday(
                     Items(EventHits(user_id(p), r.today)),
                     r.today)
    IN  /\ r.pc = "ev_get"
        /\ run' = [run EXCEPT ![p] =
                     [r EXCEPT !.pc = IF items = <<>> THEN "done" ELSE "ev_patch",
                               !.items = items,
                               !.log = Append(r.log, PendingCall(r))]]
        /\ UNCHANGED <<storeVars, budget, appVars>>

\* phase 4: the patch of one event that is not on today's page
EvPatch(p) ==
    LET r == run[p]
        ev == Head(r.items)
        rest == DropOnToday(Tail(r.items), r.today)
    IN  /\ r.pc = "ev_patch"
        /\ tasks' = [tasks EXCEPT ![ev.id] = [@ EXCEPT !.journal_date = r.today]]
        /\ run' = [run EXCEPT ![p] =
                     [r EXCEPT !.pc = IF rest = <<>> THEN "done" ELSE "ev_patch",
                               !.items = rest,
                               !.log = Append(r.log, PendingCall(r))]]
        /\ UNCHANGED <<pages, budget, appVars>>

\* Fail with the failed call issued again instead of raising
FailRetried(p) ==
    LET r == run[p]
    IN  /\ Running(r)
        /\ budget.fails > 0
        /\ budget' = [budget EXCEPT !.fails = @ - 1]
        /\ run' = [run EXCEPT ![p] =
                     [r EXCEPT !.failed_at = IF @ = 0 THEN Len(r.log) + 1 ELSE @,
                               !.log = Append(r.log, PendingCall(r))]]
        /\ UNCHANGED <<storeVars, appVars>>

\* the pending call times out or answers non-2xx: raise_for_status raises; only
\* the create of _ensure_page is inside a try
Fail(p) ==
    LET r == run[p]
    IN  /\ Running(r)
        /\ budget.fails > 0
        /\ budget' = [budget EXCEPT !.fails = @ - 1]
        /\ run' = [run EXCEPT ![p] =
                     [r EXCEPT !.pc = IF r.pc = "page_post" THEN "page_reget"
                                      ELSE "failed",
                               !.failed_at = IF @ = 0 THEN Len(r.log) + 1 ELSE @,
                               !.log = Append(r.log, PendingCall(r))]]
        /\ UNCHANGED <<storeVars, appVars>>

(***************************************************************************)
(* The controller's task operations, as the task list of a context tab     *)
(* invokes them.  Every handler ends by refreshing the tab, so in one      *)
(* application instance the cached record a handler reads has the status   *)
(* the store holds.                                                        *)
(***************************************************************************)
\* the contexts of the user, as load_contexts returns them
Contexts == {"c1", "c2"}

\* list_tasks(context_id, "all"): owner && context && open || done || cancelled,
\* evaluated left to right
ListAllFilter(t, user, context_id) ==
    \/ (t.owner = user /\ t.context = context_id /\ t.status = "open")
    \/ t.status = "done"
    \/ t.status = "cancelled"

\* the collection's listRule: owner = @request.auth.id
ListRule(t, user) == t.owner = user

\* list_all_tasks(context_id) of the application instance of the user
list_all_tasks(user, context_id) ==
    {i \in 1..Len(tasks) :
        /\ ListRule(tasks[i], user)
        /\ ListAllFilter(tasks[i], user, context_id)}

\* the tasks a tab holds in _tasks_by_id
Listed(user) ==
    {i \in 1..Len(tasks) :
        /\ ListRule(tasks[i], user)
        /\ \E c \in Contexts : ListAllFilter(tasks[i], user, c)}

UiStep ==
    /\ \A p \in Procs : ~ Running(run[p])
    /\ budget.ui > 0
    /\ budget' = [budget EXCEPT !.ui = @ - 1]
    /\ run' = [p \in Procs |-> Idle]
    /\ UNCHANGED <<pages, appVars>>

\* AppController.toggle_done
toggle_done(i) ==
    /\ i \in Listed(Self)
    /\ UiStep
    /\ tasks' = [tasks EXCEPT ![i] =
                   [@ EXCEPT !.status = IF tasks[i].status = "done" THEN "open"
                                        ELSE "done"]]

\* AppController.archive
archive(i) ==
    /\ i \in Listed(Self)
    /\ UiStep
    /\ tasks' = [tasks EXCEPT ![i] = [@ EXCEPT !.status = "archived"]]

\* owner = "<user>" && context = "<context_id>" && status = "open"
ListOpenFilter(t, user, context_id) ==
    /\ t.owner = user
    /\ t.context = context_id
    /\ t.status = "open"

\* list_tasks(context_id, status="open"); perPage = 500 is more than any store
\* here holds
list_open_tasks(user, context_id) ==
    {i \in 1..Len(tasks) :
        /\ ListRule(tasks[i], user)
        /\ ListOpenFilter(tasks[i], user, context_id)}

\* i.get("position") or 1.0
PositionOr(t) == IF t.position \in {None, 0} THEN 1 ELSE t.position

\* max(..., default=0.0)
Max(S) == IF S = {} THEN 0 ELSE CHOOSE x \in S : \A y \in S : y <= x

\* AppController.add_task with create_task's defaults; clock is date.today()
add_task(context_id, clock) ==
    LET items == list_open_tasks(Self, context_id)
        pos == Max({PositionOr(tasks[i]) : i \in items}) + 1
    IN  /\ UiStep
        /\ tasks' = Append(tasks,
                           [BlankTask EXCEPT !.context = context_id,
                                             !.position = pos,
                                             !.journal_date = clock])

(***************************************************************************)
(* Startup: main() logs the client in and, when that succeeds, constructs  *)
(* the controller and the window.                                          *)
(***************************************************************************)
NoOp ==
    [op |-> "none", name |-> "", calls |-> <<>>, raised |-> FALSE,
     result |-> 0, before |-> <<>>]

NoResp == [ok |-> FALSE, token |-> "", record |-> "absent"]

\* PocketBaseClient.__init__: empty token and user id, a session without the
\* Authorization header; stage is where main() stands, resp the answer login
\* received, last the latest operation on the contexts collection
AppStart ==
    [stage |-> "start", token |-> "", user_id |-> "", header |-> FALSE,
     controller |-> FALSE, window |-> FALSE, resp |-> NoResp, last |-> NoOp]

\* the answers of auth-with-password: the status, the "token" member (a text,
\* the empty text, or absent), and the "record" member (absent, null, an
\* object without "id", or an object with the id)
Responses ==
    [ok : BOOLEAN, token : {"tok", "", "absent"},
     record : {"absent", "null", "no_id", "id"}]

\* PocketBaseClient.login: what it raises and what it leaves in the client
login(resp) ==
    LET token == IF resp.token = "absent" THEN "None" ELSE resp.token
        uid == IF resp.record = "id" THEN Self ELSE "None"
    IN  IF ~ resp.ok
        THEN [raised |-> "PBError", token |-> "", user_id |-> "",
              header |-> FALSE]
        ELSE IF resp.record = "null"
        THEN [raised |-> "AttributeError", token |-> token, user_id |-> "",
              header |-> FALSE]
        ELSE IF token \in {"", "None"} \/ uid = "None"
        THEN [raised |-> "PBError", token |-> token, user_id |-> uid,
              header |-> FALSE]
        ELSE [raised |-> "none", token |-> token, user_id |-> uid,
              header |-> TRUE]

\* main(): PBError is caught and main returns; another exception leaves main;
\* without an exception the controller and the window are constructed
main(resp) ==
    LET out == login(resp)
    IN  /\ app.stage = "start"
        /\ app' = [app EXCEPT
                     !.resp = resp,
                     !.token = out.token,
                     !.user_id = out.user_id,
                     !.header = out.header,
                     !.controller = (out.raised = "none"),
                     !.window = (out.raised = "none"),
                     !.stage = CASE out.raised = "none" -> "tabs"
                                 [] out.raised = "PBError" -> "returned"
                                 [] OTHER -> "raised"]
        /\ UNCHANGED <<storeVars, run, budget, contexts, realtime>>

\* the process has ended or the window is closed, and the program is started again
launch ==
    /\ app.stage \in {"returned", "raised", "ui"}
    /\ budget.runs > 0
    /\ budget' = [budget EXCEPT !.runs = @ - 1]
    /\ app' = AppStart
    /\ UNCHANGED <<storeVars, run, contexts, realtime>>

(***************************************************************************)
(* The contexts of a user.  A call that answers non-2xx is drawn by its     *)
(* position among the calls the operation issues (0: every call answers).   *)
(***************************************************************************)
Laboral == "Laboral"
Personal == "Personal"
Casa == "Casa"
ContextNames == {Laboral, Personal, Casa}

\* name = "<name>" && owner = "<user>"
ContextHits(ctxs, user, name) ==
    {i \in 1..Len(ctxs) : ctxs[i].name = name /\ ctxs[i].owner = user}

\* ContextUniqueViolation without the index
ContextUniqueViolationNoIndex(ctxs, payload) == FALSE

\* CREATE UNIQUE INDEX idx_contexts_owner_name ON contexts (owner, name)
ContextUniqueViolation(ctxs, payload) ==
    \E i \in 1..Len(ctxs) :
        ctxs[i].owner = payload.owner /\ ctxs[i].name = payload.name

\* list_contexts: owner = "<user>"
ListContexts(ctxs, user) == {i \in 1..Len(ctxs) : ctxs[i].owner = user}

\* PocketBaseClient.ensure_context on the collection ctxs: the collection it
\* leaves, the calls it issued, whether it raised, the record it returned
EnsureContext(ctxs, user, name, get_ok, post_ok) ==
    LET hits == ContextHits(ctxs, user, name)
        payload == [owner |-> user, name |-> name]
    IN  IF get_ok /\ hits # {}
        THEN [ctxs |-> ctxs, calls |-> <<"get">>, raised |-> FALSE,
              result |-> Min(hits)]
        ELSE IF post_ok /\ ~ ContextUniqueViolation(ctxs, payload)
        THEN [ctxs |-> Append(ctxs, payload), calls |-> <<"get", "post">>,
              raised |-> FALSE, result |-> Len(ctxs) + 1]
        ELSE [ctxs |-> ctxs, calls |-> <<"get", "post">>, raised |-> TRUE,
              result |-> 0]

\* AppController.load_contexts on the collection ctxs
LoadContexts(ctxs, user, fail) ==
    LET e1 == EnsureContext(ctxs, user, Laboral, fail # 2, fail # 3)
        n1 == Len(e1.calls) + 1
        e2 == EnsureContext(e1.ctxs, user, Personal, fail # n1 + 1, fail # n1 + 2)
        n2 == n1 + Len(e2.calls)
    IN  IF fail = 1
        THEN [ctxs |-> ctxs, calls |-> <<"list">>, raised |-> TRUE]
        ELSE IF ListContexts(ctxs, user) # {}
        THEN [ctxs |-> ctxs, calls |-> <<"list">>, raised |-> FALSE]
        ELSE IF e1.raised
        THEN [ctxs |-> e1.ctxs, calls |-> <<"list">> \o e1.calls, raised |-> TRUE]
        ELSE IF e2.raised
        THEN [ctxs |-> e2.ctxs, calls |-> <<"list">> \o e1.calls \o e2.calls,
              raised |-> TRUE]
        ELSE [ctxs |-> e2.ctxs,
              calls |-> <<"list">> \o e1.calls \o e2.calls \o <<"list">>,
              raised |-> fail = n2 + 1]

CtxStep ==
    /\ app.header
    /\ budget.ui > 0
    /\ budget' = [budget EXCEPT !.ui = @ - 1]
    /\ UNCHANGED <<storeVars, run, realtime>>

ensure_context(name, fail) ==
    LET e == EnsureContext(contexts, app.user_id, name, fail # 1, fail # 2)
    IN  /\ CtxStep
        /\ contexts' = e.ctxs
        /\ app' = [app EXCEPT !.last =
                     [op |-> "ensure_context", name |-> name, calls |-> e.calls,
                      raised |-> e.raised, result |-> e.result,
                      before |-> contexts]]

\* load_contexts, as _build_tabs calls it while the window is constructed; an
\* exception is caught there and the window stays without tabs
load_contexts(fail) ==
    LET l == LoadContexts(contexts, app.user_id, fail)
    IN  /\ CtxStep
        /\ contexts' = l.ctxs
        /\ app' = [app EXCEPT !.stage = "ui",
                               !.last =
                     [op |-> "load_contexts", name |-> "", calls |-> l.calls,
                      raised |-> l.raised, result |-> 0, before |-> contexts]]

\* the application of a user who has logged in, with the default contexts
AppRunning ==
    [AppStart EXCEPT !.stage = "ui", !.token = "tok", !.user_id = Self,
                     !.header = TRUE, !.controller = TRUE, !.window = TRUE,
                     !.resp = [ok |-> TRUE, token |-> "tok", record |-> "id"]]

InitContexts ==
    << [owner |-> Self, name |-> Laboral], [owner |-> Self, name |-> Personal] >>

(***************************************************************************)
(* The store the application starts from.  Routines and events are not     *)
(* created by this client (add_task creates todos only): they are in the   *)
(* store already.                                                          *)
(***************************************************************************)
sFreqWeeklyByDayWe == sFreqWeekly \o <<";">> \o sByDayEq \o WE

SeqRecurrences == {sFreqWeekly, sFreqWeeklyByDayWe, <<>>}

sLowerFreqWeekly == <<"f","r","e","q","=","w","e","e","k","l","y">>

\* task 1 is a routine with the given recurrence and task 2 a routine due every
\* day; the others are on day `d` (the event starts the day after): an open todo
\* without a count, a done, a cancelled and an archived todo, another user's
\* open todo, an event, and an open todo of the day before in the other context
InitTasks(recurrence, d) ==
    << [BlankTask EXCEPT !.kind = "routine", !.title = "Standup",
                         !.journal_date = d, !.recurrence = recurrence],
       [BlankTask EXCEPT !.kind = "routine", !.title = "Review",
                         !.notes = "n", !.context = "c2",
                         !.priority = 2, !.recurrence = sLowerFreqWeekly],
       [BlankTask EXCEPT !.journal_date = d, !.migrated_count = None,
                         !.due_date = d + 1, !.position = 2],
       [BlankTask EXCEPT !.journal_date = d, !.status = "done",
                         !.migrated_count = 2],
       [BlankTask EXCEPT !.journal_date = d, !.status = "cancelled"],
       [BlankTask EXCEPT !.journal_date = d, !.status = "archived"],
       [BlankTask EXCEPT !.journal_date = d, !.owner = Other],
       [BlankTask EXCEPT !.kind = "event", !.journal_date = d,
                         !.start_at = <<d + 1, 3600>>, !.due_date = d],
       [BlankTask EXCEPT !.journal_date = d - 1, !.due_date = d - 1,
                         !.context = "c2", !.position = 0] >>

\* another user's page of day d, and an own page of day d + 1 made at noon by
\* another client
InitPages(d) ==
    << [owner |-> Other, date |-> <<d, 0>>],
       [owner |-> Self, date |-> <<d + 1, 43200>>] >>

StartWith(recurrences, d, runs, ui, fails) ==
    /\ \E recurrence \in recurrences : tasks = InitTasks(recurrence, d)
    /\ pages = InitPages(d)
    /\ run = [p \in Procs |-> Idle]
    /\ budget = [runs |-> runs, ui |-> ui, fails |-> fails]
    /\ contexts = InitContexts
    /\ app = AppRunning
    /\ realtime = RtStart

Init == StartWith(SeqRecurrences, 1, MaxRuns, 0, MaxFails)

\* one application instance running prepare_today again and again, each run to
\* its end (return or raise) before the next
Next ==
    \/ \E today \in Days : Begin(1, today)
    \/ PageGet(1)
    \/ PagePost(1)
    \/ PageReget(1)
    \/ MigGet(1)
    \/ MigPatch(1)
    \/ RtGet(1)
    \/ RtChk(1)
    \/ RtPost(1)
    \/ EvGet(1)
    \/ EvPatch(1)
    \/ Fail(1)

Spec == Init /\ [][Next]_vars

\* one application instance: prepare_today and the task list's handlers in any
\* order, every operation running to its end before the next
InitUi == StartWith(SeqRecurrences, 1, MaxRuns, MaxUiOps, MaxFails)

NextUi ==
    \/ Next
    \/ \E i \in 1..Len(tasks) : toggle_done(i)
    \/ \E i \in 1..Len(tasks) : archive(i)
    \/ \E c \in Contexts, clock \in Days : add_task(c, clock)

SpecUi == InitUi /\ [][NextUi]_vars

(***************************************************************************)
(* Recurrence texts for the matcher.  A well-formed text is rendered from  *)
(* the list of weekdays it means, so what it means is known without        *)
(* parsing it.                                                             *)
(***************************************************************************)
LowerChar(c) ==
    IF \E i \in 1..Len(UpperChars) : UpperChars[i] = c
    THEN LowerChars[CHOOSE i \in 1..Len(UpperChars) : UpperChars[i] = c]
    ELSE c

Lower(s) == [i \in 1..Len(s) |-> LowerChar(s[i])]

RECURSIVE Join(_, _)
Join(list, sep) ==
    IF list = <<>> THEN <<>>
    ELSE IF Len(list) = 1 THEN Head(list)
    ELSE Head(list) \o sep \o Join(Tail(list), sep)

ByDayLists ==
    { <<TU>>, <<TH>>, <<MO, WE, FR>>, <<MO, TU, WE, TH, FR>>, <<SA, SU>> }

\* the spellings of FREQ=WEEKLY with the BYDAY list `days`
Renderings(days) ==
    { sFreqWeekly \o <<";">> \o sByDayEq \o Join(days, <<",">>),
      Lower(sFreqWeekly \o <<";">> \o sByDayEq \o Join(days, <<",">>)),
      sLowerFreqWeekly \o <<";">> \o sByDayEq \o Join(days, <<",">>),
      sByDayEq \o Join(days, <<",">>) \o <<";">> \o sFreqWeekly,
      sFreqWeekly \o <<";">> \o sByDayEq \o Join(days, <<",", " ">>) }

sInterval == <<";","I","N","T","E","R","V","A","L","=","1">>

\* [days, text]: days = <<>> when the text has no BYDAY
WellFormed ==
    UNION { {[days |-> days, text |-> text] : text \in Renderings(days)} :
            days \in ByDayLists }
    \cup { [days |-> <<>>, text |-> text] :
           text \in {sFreqWeekly, sLowerFreqWeekly, sFreqWeekly \o sInterval} }

sFreqEq == <<"F","R","E","Q","=">>
sMonthly == <<"M","O","N","T","H","L","Y">>
sDaily == <<"D","A","I","L","Y">>
sBiweekly == <<"B","I","W","E","E","K","L","Y">>
sGarbage == <<"g","a","r","b","a","g","e">>

\* texts without a FREQ key, or with a FREQ value that is not WEEKLY
NotWeekly ==
    { sFreqEq \o sMonthly,
      sFreqEq \o sDaily,
      sFreqEq \o sMonthly \o <<";">> \o sByDayEq \o TU,
      sByDayEq \o TU,
      sFreqEq \o sBiweekly,
      sFreqWeekly \o <<"X">>,
      <<"X">> \o sFreqWeekly }

\* texts with unparseable tokens
Malformed ==
    { sGarbage \o <<";", ";", ";">>,
      sFreqWeekly \o <<";">> \o sByDayEq \o <<"X","X",",","Y","Y">>,
      sFreqWeekly \o <<";">> \o sByDayEq \o TU \o <<",","X","X">>,
      sFreqWeekly \o <<";">> \o sGarbage,
      sFreqWeekly \o <<";", ";", ";">>,
      <<"=", ";", "=">> }

MatchRecurrences == {w.text : w \in WellFormed} \cup NotWeekly \cup Malformed

\* a whole week, Monday to Sunday
Week == 7..13

\* one prepare_today run on any day of the week over a routine with any of the texts
InitMatch == StartWith(MatchRecurrences, 7, MatchRuns, 0, MaxFails)

NextMatch ==
    \/ \E today \in Week : Begin(1, today)
    \/ PageGet(1)
    \/ PagePost(1)
    \/ PageReget(1)
    \/ MigGet(1)
    \/ MigPatch(1)
    \/ RtGet(1)
    \/ RtChk(1)
    \/ RtPost(1)
    \/ EvGet(1)
    \/ EvPatch(1)
    \/ Fail(1)

SpecMatch == InitMatch /\ [][NextMatch]_vars

(***************************************************************************)
(* Two application instances of the same user running prepare_today at the *)
(* same time: their HTTP calls interleave in any order.  No call fails      *)
(* except by a conflict in the store.  One run is started, and ConcRuns    *)
(* further runs are started while it or its successors are in progress.    *)
(***************************************************************************)
InitConc == StartWith({sFreqWeekly}, 1, ConcRuns + 1, 0, 0)

NextConc ==
    \E p \in Procs :
        \/ \E today \in Days : Begin(p, today)
        \/ PageGet(p)
        \/ PagePost(p)
        \/ PageReget(p)
        \/ MigGet(p)
        \/ MigPatch(p)
        \/ RtGet(p)
        \/ RtChk(p)
        \/ RtPost(p)
        \/ EvGet(p)
        \/ EvPatch(p)

SpecConc == InitConc /\ [][NextConc]_vars

(***************************************************************************)
(* A store with events around the window of phase 4: at its first second,  *)
(* at its last second, at the second the filter leaves out, on the page of *)
(* the day already, of another user, and a todo that carries a start_at.   *)
(***************************************************************************)
EventTasks(d) ==
    << [BlankTask EXCEPT !.kind = "event", !.journal_date = d,
                         !.start_at = <<d + 1, 0>>],
       [BlankTask EXCEPT !.kind = "event", !.journal_date = None,
                         !.start_at = <<d + 1, EndOfDaySec - 1>>],
       [BlankTask EXCEPT !.kind = "event", !.journal_date = d,
                         !.start_at = <<d + 1, EndOfDaySec>>],
       [BlankTask EXCEPT !.kind = "event", !.journal_date = d + 1,
                         !.start_at = <<d + 1, 3600>>],
       [BlankTask EXCEPT !.kind = "event", !.journal_date = d, !.owner = Other,
                         !.start_at = <<d + 1, 3600>>],
       [BlankTask EXCEPT !.kind = "todo", !.journal_date = None,
                         !.start_at = <<d + 1, 3600>>],
       [BlankTask EXCEPT !.kind = "event", !.journal_date = d + 1,
                         !.start_at = <<d, 43200>>] >>

InitEv ==
    /\ tasks = InitTasks(sFreqWeekly, 1) \o EventTasks(1)
    /\ pages = InitPages(1)
    /\ run = [p \in Procs |-> Idle]
    /\ budget = [runs |-> EvRuns, ui |-> 0, fails |-> MaxFails]
    /\ contexts = InitContexts
    /\ app = AppRunning
    /\ realtime = RtStart

SpecEv == InitEv /\ [][Next]_vars

(***************************************************************************)
(* The program from its start: main() with any answer to the login, then   *)
(* the operations on the contexts of the user, over a store that holds no   *)
(* context, another user's context, or one context of the user.            *)
(***************************************************************************)
InitApp ==
    /\ tasks = <<>>
    /\ pages = <<>>
    /\ run = [p \in Procs |-> Idle]
    /\ budget = [runs |-> AppLaunches, ui |-> CtxOps, fails |-> 0]
    /\ contexts \in { <<>>,
                       << [owner |-> Other, name |-> Laboral] >>,
                       << [owner |-> Self, name |-> Casa] >> }
    /\ app = AppStart
    /\ realtime = RtStart

NextApp ==
    \/ \E resp \in Responses : main(resp)
    \/ launch
    \/ \E name \in ContextNames, fail \in 0..2 : ensure_context(name, fail)
    \/ \E fail \in 0..6 : load_contexts(fail)

SpecApp == InitApp /\ [][NextApp]_vars

(***************************************************************************)
(* Properties.                                                             *)
(***************************************************************************)
\* the tasks with parent_task = rid and journal_date = day
Children(rid, day) ==
    {i \in 1..Len(tasks) :
        tasks[i].parent_task = rid /\ tasks[i].journal_date = day}

RoutineIds ==
    {i \in 1..Len(tasks) : tasks[i].kind = "routine" /\ tasks[i].owner = Self}

\* what the recurrence texts of the sequential specifications mean
SeqMatches(recurrence, day) ==
    \/ recurrence \in {sFreqWeekly, sLowerFreqWeekly}
    \/ recurrence = sFreqWeeklyByDayWe /\ day % 7 = 2

\* the two-letter token of a day, Monday = MO
TokenOf(day) ==
    CASE day % 7 = 0 -> MO [] day % 7 = 1 -> TU [] day % 7 = 2 -> WE
      [] day % 7 = 3 -> TH [] day % 7 = 4 -> FR [] day % 7 = 5 -> SA
      [] day % 7 = 6 -> SU

\* the run is past _ensure_page, which returned
PastPage(r) ==
    r.pc \in {"mig_get", "mig_patch", "rt_get", "rt_chk", "rt_post",
              "ev_get", "ev_patch", "done"}

\* the run is past phase 3
PastRoutines(r) == r.pc \in {"ev_get", "ev_patch", "done"}

Logged(r, site, id) ==
    \E k \in 1..Len(r.log) : r.log[k].site = site /\ r.log[k].id = id

\* the run is the second of two completed prepare_today runs on the same date
\* with no operation in between
SecondOfTwo(r) ==
    /\ r.pc = "done"
    /\ r.prev.res = "done"
    /\ r.prev.today = r.today

(* C1: for every routine R of the owner whose recurrence matches D, after two
   prepare_today(D) runs in a row, both run to completion, exactly one task has
   parent_task = R.id and journal_date = D, and the second run created none. *)
C1_TwiceLeavesExactlyOne ==
    SecondOfTwo(run[1]) =>
        \A R \in RoutineIds :
            SeqMatches(tasks[R].recurrence, run[1].today) =>
                /\ Cardinality(Children(R, run[1].today)) = 1
                /\ \A c \in run[1].created : tasks[c].parent_task # R

(* C2: in every state reachable by prepare_today (any dates, any order),
   add_task, toggle_done and archive of one owner, for every routine R and every
   date D at most one task has parent_task = R.id and journal_date = D. *)
C2_AtMostOneInstance ==
    \A R \in 1..Len(tasks) :
        tasks[R].kind = "routine" =>
            \A day \in 0..MaxDay : Cardinality(Children(R, day)) <= 1

(* C3: phase 2 of prepare_today(today) changes exactly the tasks with
   owner = self, status = open, kind = todo and journal_date = today - 1: when
   the phase is over each of them has journal_date = today and a
   migrated_count one higher than before (a missing count counting as 0), and
   every other task is as it was when the run began. *)
C3_Phase2MigratesExactly ==
    run[1].pc \in {"mig_patch", "rt_get"} =>
        /\ Len(tasks) = Len(run[1].start)
        /\ \A i \in 1..Len(run[1].start) :
             LET old == run[1].start[i]
             IN  IF /\ old.owner = Self
                    /\ old.status = "open"
                    /\ old.kind = "todo"
                    /\ old.journal_date = run[1].today - 1
                 THEN run[1].pc = "rt_get" =>
                        /\ tasks[i].journal_date = run[1].today
                        /\ tasks[i].migrated_count =
                             (IF old.migrated_count = None THEN 0
                              ELSE old.migrated_count) + 1
                 ELSE tasks[i] = old

\* phase 2 is over and has migrated a task that had no count
C3_Witness ==
    /\ run[1].pc = "rt_get"
    /\ \E i \in run[1].migrated :
         /\ run[1].start[i].migrated_count = None
         /\ tasks[i].migrated_count = 1
         /\ tasks[i].journal_date = run[1].today

(* C4: a second prepare_today(D) run right after a completed first run on the
   same D never changes the migrated_count of a task the first run migrated. *)
C4_RerunKeepsCount ==
    (run[1].prev.res = "done" /\ run[1].prev.today = run[1].today) =>
        \A i \in run[1].prev.migrated :
            /\ tasks[i].migrated_count = run[1].start[i].migrated_count
            /\ tasks[i].journal_date = run[1].today

\* the second run is over and the first had migrated a task
C4_Witness ==
    /\ SecondOfTwo(run[1])
    /\ run[1].prev.migrated # {}

(* C5: for a routine whose recurrence is FREQ=WEEKLY with a BYDAY list, in any
   letter case, prepare_today(D) treats the routine as due (looks up today's
   instance and leaves one on D) exactly when the weekday token of D is in the
   list; without BYDAY the routine is due on every D.  A routine that is not
   due gets no lookup and no instance from the run. *)
C5_WeeklyByDay ==
    PastRoutines(run[1]) =>
        \A w \in WellFormed :
            tasks[1].recurrence = w.text =>
                IF w.days = <<>> \/ TokenOf(run[1].today) \in SeqToSet(w.days)
                THEN /\ Logged(run[1], "rt_chk", 1)
                     /\ Children(1, run[1].today) # {}
                ELSE /\ ~ Logged(run[1], "rt_chk", 1)
                     /\ \A c \in run[1].created : tasks[c].parent_task # 1

\* a run on a Wednesday has created the instance of a routine written
\* freq=weekly;byday=mo,we,fr
C5_Witness ==
    /\ run[1].pc = "done"
    /\ run[1].today % 7 = 2
    /\ tasks[1].recurrence =
         Lower(sFreqWeekly \o <<";">> \o sByDayEq \o Join(<<MO, WE, FR>>, <<",">>))
    /\ \E c \in run[1].created : tasks[c].parent_task = 1

(* C6: a routine whose recurrence has no FREQ key, or a FREQ value other than
   exactly WEEKLY, is never materialized: no task ever has it as parent_task. *)
C6_NotWeeklyNeverMaterialized ==
    tasks[1].recurrence \in NotWeekly =>
        \A i \in 1..Len(tasks) : tasks[i].parent_task # 1

(* C7: a routine whose recurrence text is malformed is treated as not
   matching: the run creates no instance for it, does not fail because of it,
   and still handles the routines after it and phase 4. *)
C7_MalformedNeverMatches ==
    tasks[1].recurrence \in Malformed =>
        /\ \A i \in 1..Len(tasks) : tasks[i].parent_task # 1
        /\ run[1].pc = "failed" => budget.fails < MaxFails
        /\ run[1].pc = "done" =>
             /\ Children(2, run[1].today) # {}
             /\ Logged(run[1], "ev_get", 0)

\* the journal pages of an owner on a calendar day
PagesOn(pgs, owner, day) ==
    {i \in 1..Len(pgs) : pgs[i].owner = owner /\ pgs[i].date[1] = day}

OnePagePerOwnerAndDay ==
    \A i, j \in 1..Len(pages) :
        (pages[i].owner = pages[j].owner /\ pages[i].date[1] = pages[j].date[1])
            => i = j

(* C8: with one owner's prepare_today runs one after the other there is at
   most one journal page per owner and calendar day; after a successful
   prepare_today(D) there is exactly one page of the owner on D; and a run that
   begins when the owner's page of D exists issues no create, changes no page,
   and _ensure_page returns that page. *)
C8_OnePagePerDay ==
    /\ OnePagePerOwnerAndDay
    /\ run[1].pc = "done" =>
         Cardinality(PagesOn(pages, Self, run[1].today)) = 1
    /\ PagesOn(run[1].pages0, Self, run[1].today) # {} =>
         /\ pages = run[1].pages0
         /\ ~ Logged(run[1], "page_post", 0)
         /\ PastPage(run[1]) =>
              run[1].page \in PagesOn(run[1].pages0, Self, run[1].today)

\* a run has completed on a day whose page existed, stored at noon
C8_Witness ==
    /\ run[1].pc = "done"
    /\ run[1].found
    /\ \E i \in PagesOn(run[1].pages0, Self, run[1].today) :
         /\ pages[i].date[2] # 0
         /\ run[1].page = i

(* C9: when two callers run _ensure_page(D) at the same time for the same
   owner, the unique (owner, date) index lets at most one create succeed:
   neither caller raises, and once both have returned exactly one page of the
   owner exists on D and both have returned it. *)
C9_ConcurrentEnsurePage ==
    /\ \A p \in Procs : run[p].pc # "failed"
    /\ OnePagePerOwnerAndDay
    /\ (PastPage(run[1]) /\ PastPage(run[2]) /\ run[1].today = run[2].today) =>
         /\ Cardinality(PagesOn(pages, Self, run[1].today)) = 1
         /\ run[1].page = run[2].page
         /\ run[1].page \in PagesOn(pages, Self, run[1].today)

\* both callers found no page and both issued the create; both have returned
C9_Witness ==
    /\ PastPage(run[1])
    /\ PastPage(run[2])
    /\ run[1].today = run[2].today
    /\ Logged(run[1], "page_post", 0)
    /\ Logged(run[2], "page_post", 0)
    /\ run[1].page = run[2].page

(* C10: in _ensure_page, when the first query finds no page and the create
   fails because a concurrent caller created the page first, the function
   queries again, returns the page that now exists, and does not raise. *)
C10_ConflictRequeries ==
    \A p \in Procs :
        run[p].conflict =>
            /\ run[p].pc # "failed"
            /\ run[p].pc # "page_reget" =>
                 /\ PastPage(run[p])
                 /\ \E k \in 1..(Len(run[p].log) - 1) :
                      /\ run[p].log[k].site = "page_post"
                      /\ run[p].log[k + 1].site = "page_reget"
                 /\ run[p].page \in PagesOn(pages, Self, run[p].today)

\* a caller whose create met the conflict has completed its run
C10_Witness ==
    \E p \in Procs :
        /\ run[p].conflict
        /\ run[p].pc = "done"
        /\ ~ run[p].found

\* the call sites that read or write the tasks collection
TaskSites ==
    {"mig_get", "mig_patch", "rt_get", "rt_chk", "rt_post", "ev_get", "ev_patch"}

\* the last call of the run was the query of the except branch
LastWasReget(r) ==
    /\ r.log # <<>>
    /\ r.log[Len(r.log)].site = "page_reget"

(* C11: in _ensure_page, when the create fails and the query of the except
   branch finds no page either, the failure is raised: prepare_today ends in
   phase 1 without a page, and the invocation has read and changed no task. *)
C11_RegetEmptyRaises ==
    /\ (LastWasReget(run[1]) /\ PageHits(Self, run[1].today) = {}) =>
          run[1].pc = "failed"
    /\ (LastWasReget(run[1]) /\ run[1].pc = "failed") =>
          /\ run[1].page = 0
          /\ tasks = run[1].start
          /\ pages = run[1].pages0
          /\ \A k \in 1..Len(run[1].log) : run[1].log[k].site \notin TaskSites

\* the create failed, the second query found nothing, and the run has raised
C11_Witness ==
    /\ run[1].pc = "failed"
    /\ Len(run[1].log) = 3
    /\ run[1].log[2].site = "page_post"
    /\ run[1].log[3].site = "page_reget"
    /\ PageHits(Self, run[1].today) = {}

\* start_at lies in [D 00:00:00Z, D 23:59:59Z)
InEventWindow(t, D) ==
    /\ t.start_at[1] = D
    /\ 0 <= t.start_at[2]
    /\ t.start_at[2] < 23 * 3600 + 59 * 60 + 59

\* the tasks phase 4 of the run has to patch
ToReconcile(r) ==
    {i \in 1..Len(r.start) :
        /\ r.start[i].owner = Self
        /\ r.start[i].kind = "event"
        /\ InEventWindow(r.start[i], r.today)
        /\ r.start[i].journal_date # r.today}

(* C12: phase 4 of prepare_today(D) issues a patch setting journal_date = D
   for exactly the owner's events whose start_at lies in
   [D 00:00:00Z, D 23:59:59Z) and whose journal_date is not D: every patch
   call of phase 4 is about such an event, a completed run has patched each of
   them once, and every other event is as it was when the run began. *)
C12_Phase4PatchesExactly ==
    /\ \A k \in 1..Len(run[1].log) :
          run[1].log[k].site = "ev_patch" =>
              /\ run[1].log[k].id \in ToReconcile(run[1])
              /\ \A j \in 1..Len(run[1].log) :
                    run[1].log[j] = run[1].log[k] => j = k
    /\ \A i \in 1..Len(run[1].start) :
          run[1].start[i].kind = "event" =>
              IF i \in ToReconcile(run[1])
              THEN run[1].pc = "done" =>
                     /\ Logged(run[1], "ev_patch", i)
                     /\ tasks[i] = [run[1].start[i] EXCEPT
                                       !.journal_date = run[1].today]
              ELSE tasks[i] = run[1].start[i]

\* a completed run has patched the events at the first and the last second of
\* the window, and has left alone the one at 23:59:59 and the one on today
C12_Witness ==
    /\ run[1].pc = "done"
    /\ Cardinality(ToReconcile(run[1])) >= 3
    /\ \E i \in ToReconcile(run[1]) : run[1].start[i].start_at[2] = 0
    /\ \E i \in ToReconcile(run[1]) :
          run[1].start[i].start_at[2] = EndOfDaySec - 1
    /\ \E i \in 1..Len(run[1].start) :
          /\ run[1].start[i].kind = "event"
          /\ run[1].start[i].start_at = <<run[1].today, EndOfDaySec>>
          /\ tasks[i] = run[1].start[i]
    /\ \E i \in 1..Len(run[1].start) :
          /\ run[1].start[i].kind = "event"
          /\ run[1].start[i].owner = Self
          /\ InEventWindow(run[1].start[i], run[1].today)
          /\ run[1].start[i].journal_date = run[1].today
          /\ ~ Logged(run[1], "ev_patch", i)

\* the phase of prepare_today a call site belongs to
PhaseOf(site) ==
    CASE site \in {"page_get", "page_post", "page_reget"} -> 1
      [] site \in {"mig_get", "mig_patch"} -> 2
      [] site \in {"rt_get", "rt_chk", "rt_post"} -> 3
      [] site \in {"ev_get", "ev_patch"} -> 4

(* C13: within one prepare_today invocation the store calls happen in phase
   order: no call of a phase follows a call of a later phase; a task is read
   only after _ensure_page has returned the page; when the routine list is
   fetched every open todo of yesterday has been patched; and when the event
   query is issued every due routine has been checked and has its instance. *)
C13_PhaseOrder ==
    /\ \A j, k \in 1..Len(run[1].log) :
          j < k => PhaseOf(run[1].log[j].site) <= PhaseOf(run[1].log[k].site)
    /\ (\E k \in 1..Len(run[1].log) : run[1].log[k].site \in TaskSites) =>
          /\ run[1].page \in PagesOn(pages, Self, run[1].today)
          /\ run[1].log[1].site = "page_get"
    /\ Logged(run[1], "rt_get", 0) =>
          \A i \in 1..Len(run[1].start) :
              MigFilter(run[1].start[i], Self, run[1].today - 1) =>
                  /\ Logged(run[1], "mig_patch", i)
                  /\ tasks[i].journal_date = run[1].today
    /\ Logged(run[1], "ev_get", 0) =>
          \A R \in RoutineIds :
              IsDue(tasks[R].recurrence, run[1].today) =>
                  /\ Logged(run[1], "rt_chk", R)
                  /\ Children(R, run[1].today) # {}

\* a completed run that has created the page, migrated a task, created an
\* instance and patched an event
C13_Witness ==
    /\ run[1].pc = "done"
    /\ \E i \in 1..Len(tasks) : Logged(run[1], "mig_patch", i)
    /\ \E i \in 1..Len(tasks) : Logged(run[1], "rt_post", i)
    /\ \E i \in 1..Len(tasks) : Logged(run[1], "ev_patch", i)

\* the call of that site about that task was issued and did not fail
Completed(r, site, id) ==
    \E k \in 1..Len(r.log) :
        /\ k # r.failed_at
        /\ r.log[k].site = site
        /\ r.log[k].id = id

\* the store is the one the run began with, changed by the mutations the run
\* has completed and by nothing else
MutationsKept(r) ==
    /\ pages = IF r.page = Len(r.pages0) + 1
              THEN Append(r.pages0, [owner |-> Self, date |-> <<r.today, 0>>])
              ELSE r.pages0
    /\ Len(tasks) = Len(r.start) + Cardinality(r.created)
    /\ \A i \in 1..Len(r.start) :
          tasks[i] =
            IF Completed(r, "mig_patch", i)
            THEN [r.start[i] EXCEPT
                    !.journal_date = r.today,
                    !.migrated_count =
                        (IF r.start[i].migrated_count = None THEN 0
                         ELSE r.start[i].migrated_count) + 1]
            ELSE IF Completed(r, "ev_patch", i)
            THEN [r.start[i] EXCEPT !.journal_date = r.today]
            ELSE r.start[i]
    /\ \A c \in r.created :
          /\ c \in (Len(r.start) + 1)..Len(tasks)
          /\ Completed(r, "rt_post", tasks[c].parent_task)
          /\ tasks[c].journal_date = r.today

(* C14, as the spec states it: when a store call of prepare_today fails, the
   invocation raises at once; the failed call is the last call it issues, and
   the mutations completed before it stay in the store. *)
C14_FailureStopsAtOnce ==
    run[1].failed_at # 0 =>
        /\ run[1].pc = "failed"
        /\ Len(run[1].log) = run[1].failed_at
        /\ MutationsKept(run[1])

(* C14, amended: when a store call of prepare_today other than the page
   create fails, the invocation raises at once and the failed call is the last
   call it issues; when the page create fails, the one call that follows is the
   second page query of _ensure_page, and the invocation raises unless that
   query finds the page.  In both cases no call is issued twice and the
   mutations completed before the failure stay in the store. *)
C14_FailureStops ==
    run[1].failed_at # 0 =>
        /\ IF run[1].log[run[1].failed_at].site = "page_post"
           THEN /\ Len(run[1].log) > run[1].failed_at =>
                     run[1].log[run[1].failed_at + 1].site = "page_reget"
                /\ \/ run[1].pc = "page_reget" /\ Len(run[1].log) = run[1].failed_at
                   \/ run[1].pc = "failed" /\ Len(run[1].log) = run[1].failed_at + 1
                   \/ run[1].page \in PagesOn(pages, Self, run[1].today)
           ELSE /\ run[1].pc = "failed"
                /\ Len(run[1].log) = run[1].failed_at
        /\ \A j, k \in 1..Len(run[1].log) :
              run[1].log[j] = run[1].log[k] => j = k
        /\ MutationsKept(run[1])

\* a run has raised in phase 3 or 4 after it created the page, migrated a
\* task and created an instance
C14_Witness ==
    /\ run[1].pc = "failed"
    /\ run[1].failed_at = Len(run[1].log)
    /\ PhaseOf(run[1].log[run[1].failed_at].site) >= 3
    /\ run[1].page = Len(run[1].pages0) + 1
    /\ run[1].migrated # {}
    /\ run[1].created # {}

\* what one uninterrupted prepare_today(D) makes of a store: the pages
ExpectedPages(pgs, D) ==
    IF PagesOn(pgs, Self, D) # {} THEN pgs
    ELSE Append(pgs, [owner |-> Self, date |-> <<D, 0>>])

\* the tasks that exist, after phases 2 and 4
ExpectedOld(ts, D) ==
    [i \in 1..Len(ts) |->
        IF MigFilter(ts[i], Self, D - 1)
        THEN [ts[i] EXCEPT !.journal_date = D,
                           !.migrated_count =
                               (IF ts[i].migrated_count = None THEN 0
                                ELSE ts[i].migrated_count) + 1]
        ELSE IF /\ ts[i].owner = Self
                /\ ts[i].kind = "event"
                /\ InEventWindow(ts[i], D)
        THEN [ts[i] EXCEPT !.journal_date = D]
        ELSE ts[i]]

\* the routines phase 3 creates an instance for, in the order of the list
ExpectedDue(ts, D) ==
    SortedSeq({R \in 1..Len(ts) :
        /\ RoutineFilter(ts[R], Self)
        /\ IsDue(ts[R].recurrence, D)
        /\ \A i \in 1..Len(ts) :
              ~ ( /\ ExpectedOld(ts, D)[i].owner = Self
                  /\ ExpectedOld(ts, D)[i].parent_task = R
                  /\ ExpectedOld(ts, D)[i].journal_date = D )})

ExpectedTasks(ts, D) ==
    ExpectedOld(ts, D) \o
    [k \in 1..Len(ExpectedDue(ts, D)) |->
        InstancePayload([id |-> ExpectedDue(ts, D)[k],
                         t |-> ts[ExpectedDue(ts, D)[k]]], Self, D)]

(* C15: if a prepare_today(D) invocation fails at any point and
   prepare_today(D) is then run again to completion with nothing in between,
   the store ends as one uninterrupted prepare_today(D) would have left it
   from the state the failed invocation began with: the same pages, the same
   journal_date and migrated_count per task, the same routine instances. *)
C15_RetryConverges ==
    /\ (run[1].pc = "done" /\ run[1].failed_at = 0) =>
          /\ tasks = ExpectedTasks(run[1].start, run[1].today)
          /\ pages = ExpectedPages(run[1].pages0, run[1].today)
    /\ ( /\ run[1].pc = "done"
         /\ run[1].failed_at = 0
         /\ run[1].prev.res = "failed"
         /\ run[1].prev.today = run[1].today ) =>
          /\ tasks = ExpectedTasks(run[1].prev.start, run[1].today)
          /\ pages = ExpectedPages(run[1].prev.pages0, run[1].today)

\* the failed run had migrated a task and created an instance, and the run
\* after it, on the same date, has created another and is over
C15_Witness ==
    /\ run[1].pc = "done"
    /\ run[1].prev.res = "failed"
    /\ run[1].prev.today = run[1].today
    /\ run[1].prev.migrated # {}
    /\ run[1].prev.created # {}
    /\ run[1].created # {}

(* C16: prepare_today never changes the due_date of a task: every task that
   existed when the run began has the due_date it had then, whether the run
   migrated it, reconciled it as an event, or left it alone. *)
C16_DueDateUntouched ==
    run[1].pc # "idle" =>
        /\ Len(tasks) >= Len(run[1].start)
        /\ \A i \in 1..Len(run[1].start) :
              tasks[i].due_date = run[1].start[i].due_date

\* a completed run has migrated a todo and reconciled an event that carry a
\* due date
C16_Witness ==
    /\ run[1].pc = "done"
    /\ \E i \in run[1].migrated :
          /\ tasks[i].due_date # None
          /\ tasks[i].journal_date # run[1].start[i].journal_date
    /\ \E i \in 1..Len(run[1].start) :
          /\ Completed(run[1], "ev_patch", i)
          /\ tasks[i].due_date # None

(* C17: a task of kind = routine never reaches status = done through the
   daily flow: no sequence of prepare_today runs and of toggle_done, archive
   and add_task actions on the tasks of the task list sets a routine's status
   to done, and a prepare_today run changes no field of a routine. *)
C17_RoutineNeverDone ==
    \A i \in 1..Len(tasks) :
        tasks[i].kind = "routine" =>
            /\ tasks[i].status # "done"
            /\ (run[1].pc # "idle" /\ i <= Len(run[1].start)) =>
                  tasks[i] = run[1].start[i]

(* C18: list_tasks(context_id, status = "all") returns exactly the tasks
   with owner = the current user, context = context_id and status open, done
   or cancelled: no archived task and no task of another context. *)
C18_ListAllExact ==
    \A c \in Contexts :
        list_all_tasks(Self, c) =
            {i \in 1..Len(tasks) :
                /\ tasks[i].owner = Self
                /\ tasks[i].context = c
                /\ tasks[i].status \in {"open", "done", "cancelled"}}

\* the number of creates among the calls of an operation
Posts(calls) == Cardinality({k \in 1..Len(calls) : calls[k] = "post"})

\* the user's contexts of that name in a collection
Named(ctxs, name) ==
    {i \in 1..Len(ctxs) : ctxs[i].owner = Self /\ ctxs[i].name = name}

(* C19: ensure_context(name) is create-if-absent keyed by (name, owner).  When
   the user's context of that name exists, the collection is left as it is and
   a call that returns returns that context without issuing a create (a call
   whose lookup is answered non-2xx issues a create, which the unique index
   rejects, and raises).  When none exists one create is issued, and a call
   that returns has added exactly that context.  After any sequence of
   ensure_context and load_contexts calls there is at most one context per
   (owner, name), and load_contexts creates "Laboral" and "Personal" only when
   the user has no context at all. *)
C19_EnsureContext ==
    /\ \A i, j \in 1..Len(contexts) :
          ( /\ contexts[i].owner = contexts[j].owner
            /\ contexts[i].name = contexts[j].name ) => i = j
    /\ app.last.op = "ensure_context" =>
          IF Named(app.last.before, app.last.name) # {}
          THEN /\ contexts = app.last.before
               /\ ~ app.last.raised =>
                     /\ app.last.result \in Named(app.last.before, app.last.name)
                     /\ Posts(app.last.calls) = 0
          ELSE /\ Posts(app.last.calls) = 1
               /\ app.last.raised => contexts = app.last.before
               /\ ~ app.last.raised =>
                     /\ contexts = Append(app.last.before,
                                          [owner |-> Self, name |-> app.last.name])
                     /\ app.last.result = Len(contexts)
    /\ app.last.op = "load_contexts" =>
          IF \E i \in 1..Len(app.last.before) : app.last.before[i].owner = Self
          THEN /\ contexts = app.last.before
               /\ Posts(app.last.calls) = 0
          ELSE ~ app.last.raised =>
                 contexts = app.last.before \o
                            << [owner |-> Self, name |-> Laboral],
                               [owner |-> Self, name |-> Personal] >>

\* after load_contexts created the defaults, ensure_context("Laboral") has
\* returned the one that exists with a single lookup
C19_Witness ==
    /\ app.last.op = "ensure_context"
    /\ app.last.name = Laboral
    /\ ~ app.last.raised
    /\ app.last.calls = <<"get">>
    /\ contexts[app.last.result] = [owner |-> Self, name |-> Laboral]
    /\ Named(contexts, Personal) # {}
    /\ \E i \in 1..Len(contexts) : contexts[i].owner = Other

(* C20: if login is answered with a non-success status, or with an answer
   that lacks the token or the user id, login raises, the Authorization header
   is not installed on the session, and main() returns without constructing
   the controller or the window. *)
C20_LoginFailureNoUi ==
    ( /\ app.stage # "start"
      /\ \/ ~ app.resp.ok
         \/ app.resp.token \in {"", "absent"}
         \/ app.resp.record # "id" ) =>
        /\ app.stage = "returned"
        /\ ~ app.header
        /\ ~ app.controller
        /\ ~ app.window

(* C21: a prepare_today run of user u reads, creates and patches only
   records whose owner is u: the items every query hands to the run, the page
   _ensure_page returns and the tasks the run patches belong to u, every page
   and instance the run creates has owner = u, and no page or task of another
   user changes in any phase. *)
C21_OwnRecordsOnly ==
    run[1].pc # "idle" =>
        /\ \A k \in 1..Len(run[1].items) : run[1].items[k].t.owner = Self
        /\ run[1].page # 0 => pages[run[1].page].owner = Self
        /\ \A k \in 1..Len(run[1].log) :
              run[1].log[k].id # 0 => tasks[run[1].log[k].id].owner = Self
        /\ \A i \in 1..Len(tasks) :
              IF i <= Len(run[1].start)
              THEN run[1].start[i].owner # Self => tasks[i] = run[1].start[i]
              ELSE tasks[i].owner = Self
        /\ \A i \in 1..Len(pages) :
              IF i <= Len(run[1].pages0)
              THEN pages[i] = run[1].pages0[i]
              ELSE pages[i].owner = Self

\* a completed run has migrated a task of the user and has left alone
\* another user's open todo of the same day
C21_Witness ==
    /\ run[1].pc = "done"
    /\ run[1].migrated # {}
    /\ \E i \in 1..Len(run[1].start) :
          /\ run[1].start[i].owner = Other
          /\ run[1].start[i].status = "open"
          /\ run[1].start[i].kind = "todo"
          /\ run[1].start[i].journal_date = run[1].today - 1
          /\ tasks[i] = run[1].start[i]

(* C22: after a successful prepare_today(D), every event task of the owner
   whose start_at falls on UTC calendar day D, the last second of the day
   included, has journal_date = D. *)
C22_EventsOfTheDayOnToday ==
    run[1].pc = "done" =>
        \A i \in 1..Len(tasks) :
            ( /\ tasks[i].owner = Self
              /\ tasks[i].kind = "event"
              /\ tasks[i].start_at[1] = run[1].today )
            => tasks[i].journal_date = run[1].today

(***************************************************************************)
(* The copy of DailyOps in pb_tkinter_todo.py.  Its prepare_today has the  *)
(* same four phases; its _ensure_page matches the page by date = "<D>" and *)
(* has no try around the create.  The store compares dates as instants: a  *)
(* date without a time of day is the midnight that starts the day.         *)
(***************************************************************************)
LegacyRuns == 2

\* owner = "<user>" && date = "<D>"
LegacyPageFilter(pg, user, date_iso) ==
    /\ pg.owner = user
    /\ pg.date = <<date_iso, 0>>

LegacyPageHits(user, date_iso) ==
    {i \in 1..Len(pages) : LegacyPageFilter(pages[i], user, date_iso)}

\* prepare_today of the copy is called
LegacyBegin(p, today) ==
    /\ ~ Running(run[p])
    /\ budget.runs > 0
    /\ budget' = [budget EXCEPT !.runs = @ - 1]
    /\ run' = [run EXCEPT ![p] =
                 [Idle EXCEPT !.pc = "legacy_page_get", !.today = today,
                              !.start = tasks, !.pages0 = pages,
                              !.prev = [res |-> run[p].pc, today |-> run[p].today,
                                        migrated |-> run[p].migrated,
                                        created |-> run[p].created,
                                        start |-> run[p].start,
                                        pages0 |-> run[p].pages0]]]
    /\ UNCHANGED <<storeVars, appVars>>

\* _ensure_page of the copy: the query
LegacyPageGet(p) ==
    LET r == run[p]
        hits == LegacyPageHits(user_id(p), r.today)
        log == Append(r.log, PendingCall(r))
    IN  /\ r.pc = "legacy_page_get"
        /\ run' = [run EXCEPT ![p] =
                     IF hits # {}
                     THEN [r EXCEPT !.pc = "mig_get", !.page = Min(hits),
                                    !.found = TRUE, !.log = log]
                     ELSE [r EXCEPT !.pc = "legacy_page_post", !.log = log]]
        /\ UNCHANGED <<storeVars, budget, appVars>>

\* _ensure_page of the copy: the create; raise_for_status raises on a conflict
LegacyPagePost(p) ==
    LET r == run[p]
        payload == [owner |-> user_id(p), date |-> <<r.today, 0>>]
        log == Append(r.log, PendingCall(r))
    IN  /\ r.pc = "legacy_page_post"
        /\ IF PageUniqueViolation(payload)
           THEN /\ run' = [run EXCEPT ![p] =
                             [r EXCEPT !.pc = "failed", !.conflict = TRUE,
                                       !.failed_at = Len(log), !.log = log]]
                /\ UNCHANGED pages
           ELSE /\ pages' = Append(pages, payload)
                /\ run' = [run EXCEPT ![p] =
                             [r EXCEPT !.pc = "mig_get", !.page = Len(pages) + 1,
                                       !.log = log]]
        /\ UNCHANGED <<tasks, budget, appVars>>

\* the dates of the pages the user may have when the application starts, in
\* the order the store lists them
PageDates ==
    << <<1, 43200>>, <<1, 0>>, <<2, 0>>, <<2, EndOfDaySec>>, <<3, 0>> >>

RECURSIVE PagesOf(_, _)
PagesOf(dates, chosen) ==
    IF dates = <<>> THEN <<>>
    ELSE (IF Len(dates) \in chosen
          THEN << [owner |-> Self, date |-> Head(dates)] >> ELSE <<>>)
         \o PagesOf(Tail(dates), chosen)

InitLegacy ==
    /\ tasks = InitTasks(sFreqWeekly, 1)
    /\ \E chosen \in SUBSET (1..Len(PageDates)) :
          pages = << [owner |-> Other, date |-> <<1, 0>>] >>
                  \o PagesOf(PageDates, chosen)
    /\ run = [p \in Procs |-> Idle]
    /\ budget = [runs |-> LegacyRuns, ui |-> 0, fails |-> 0]
    /\ contexts = InitContexts
    /\ app = AppRunning
    /\ realtime = RtStart

\* the user runs the package (process 1) and the single-file script
\* (process 2) one after the other against the same store; every store call
\* is answered
NextLegacy ==
    \/ \E today \in Days : ~ Running(run[2]) /\ Begin(1, today)
    \/ \E today \in Days : ~ Running(run[1]) /\ LegacyBegin(2, today)
    \/ LegacyPageGet(2)
    \/ LegacyPagePost(2)
    \/ \E p \in Procs :
         \/ PageGet(p)
         \/ PagePost(p)
         \/ MigGet(p)
         \/ MigPatch(p)
         \/ RtGet(p)
         \/ RtChk(p)
         \/ RtPost(p)
         \/ EvGet(p)
         \/ EvPatch(p)

SpecLegacy == InitLegacy /\ [][NextLegacy]_vars

\* the first query of the run has been answered
Answered(r) == r.log # <<>> /\ r.failed_at # 1

\* the pages of the user that a run found in the store and whose date lies on
\* calendar day D, at any time of the day
OnDay(r, D) ==
    {i \in 1..Len(r.pages0) :
        r.pages0[i].owner = Self /\ r.pages0[i].date[1] = D}

(* C23: _ensure_page(D) finds an existing page of the owner whose stored date
   lies anywhere in [D 00:00:00Z, D+1 00:00:00Z) and then creates nothing; a
   page dated exactly D+1 00:00:00Z is not taken as the page of D; a page it
   creates is stored at D 00:00:00Z.  The copy in pb_tkinter_todo.py returns
   the same page whenever the existing page is stored at exact midnight. *)
C23_EnsurePageWindow ==
    LET n == run[1]
        l == run[2]
    IN  /\ (Answered(n) /\ OnDay(n, n.today) # {}) =>
               /\ n.found
               /\ n.page \in OnDay(n, n.today)
               /\ n.pc # "page_post"
               /\ \A k \in 1..Len(n.log) : n.log[k].site # "page_post"
        /\ (Answered(n) /\ OnDay(n, n.today) = {}) =>
               /\ ~ n.found
               /\ n.page # 0 => n.page = Len(n.pages0) + 1
        /\ n.page # 0 =>
               /\ pages[n.page].owner = Self
               /\ pages[n.page].date # <<n.today + 1, 0>>
               /\ n.page > Len(n.pages0) => pages[n.page].date = <<n.today, 0>>
        /\ ( /\ Answered(l)
             /\ OnDay(l, l.today) # {}
             /\ l.pages0[Min(OnDay(l, l.today))].date = <<l.today, 0>> )
           => l.found /\ l.page = Min(OnDay(l, l.today))
        /\ ( /\ n.found /\ l.found /\ n.today = l.today
             /\ pages[n.page].date = <<n.today, 0>> )
           => l.page = n.page

\* both versions have found the same page, stored at midnight, while the
\* store also holds the page of the next midnight
C23_Witness ==
    /\ run[1].found /\ run[2].found
    /\ run[1].today = run[2].today
    /\ run[1].page = run[2].page
    /\ pages[run[1].page].date = <<run[1].today, 0>>
    /\ \E i \in 1..Len(pages) :
          pages[i] = [owner |-> Self, date |-> <<run[1].today + 1, 0>>]

\* the open tasks of a context that the user has in the store
OpenIn(context_id) ==
    {i \in 1..Len(tasks) :
        /\ tasks[i].owner = Self
        /\ tasks[i].context = context_id
        /\ tasks[i].status = "open"}

\* the position the store holds for task i; an unset number is 0
StoredPosition(i) == IF tasks[i].position = None THEN 0 ELSE tasks[i].position

(* C27: add_task creates the task with position equal to the maximum position
   among the open tasks of the context plus 1 (1 when the context has no open
   task), for every set of existing positions, 0 and unset included; the new
   position is greater than the position of every open task that was in the
   context. *)
C27_AddTaskAtEnd ==
    [][ Len(tasks') = Len(tasks) + 1 /\ budget'.ui < budget.ui =>
          LET new == tasks'[Len(tasks')]
              open == OpenIn(new.context)
          IN  /\ new.position =
                    IF open = {} THEN 1
                    ELSE (CHOOSE x \in {StoredPosition(i) : i \in open} :
                             \A i \in open : StoredPosition(i) <= x) + 1
              /\ \A i \in open : new.position > StoredPosition(i) ]_vars

(* C24: every task phase 3 creates for routine R on date D has kind = todo,
   status = open, journal_date = D, owner = the user, parent_task = R.id,
   position = 1, and the title, notes, priority and context R had when the
   routines were fetched; phase 3 creates tasks only for tasks of kind routine
   with a non-empty recurrence, and no other phase creates a task. *)
C24_InstanceFields ==
    LET r == run[1]
    IN  /\ \A i \in r.created :
              LET t == tasks[i]
                  R == t.parent_task
              IN  /\ R \in 1..Len(r.start)
                  /\ r.start[R].kind = "routine"
                  /\ r.start[R].recurrence # <<>>
                  /\ t.kind = "todo"
                  /\ t.status = "open"
                  /\ t.journal_date = r.today
                  /\ t.owner = Self
                  /\ t.position = 1
                  /\ t.title = r.start[R].title
                  /\ t.notes = r.start[R].notes
                  /\ t.priority = r.start[R].priority
                  /\ t.context = r.start[R].context
        /\ r.pc # "idle" =>
              \A i \in 1..Len(tasks) : i > Len(r.start) => i \in r.created

\* a completed run has created an instance of each of two routines that
\* differ in title, notes, priority and context
C24_Witness ==
    /\ run[1].pc = "done"
    /\ \E i, j \in run[1].created :
          /\ tasks[i].title # tasks[j].title
          /\ tasks[i].notes # tasks[j].notes
          /\ tasks[i].priority # tasks[j].priority
          /\ tasks[i].context # tasks[j].context

\* the migrated_count of a record, an unset count being 0
Count(t) == IF t.migrated_count = None THEN 0 ELSE t.migrated_count

\* two runs of the same date that both started with task i an open todo of the
\* user on the day before
SameTodo(i) ==
    /\ run[1].pc # "idle" /\ run[2].pc # "idle"
    /\ run[1].today = run[2].today
    /\ \A p \in Procs :
          /\ i <= Len(run[p].start)
          /\ run[p].start[i].owner = Self
          /\ run[p].start[i].status = "open"
          /\ run[p].start[i].kind = "todo"
          /\ run[p].start[i].journal_date = run[p].today - 1

(* C25, as stated: two prepare_today(D) runs of the same owner that both patch
   the same open todo of D-1 leave its migrated_count 2 higher than it was
   before the two runs. *)
C25_DoubleIncrement ==
    \A i \in 1..Len(tasks) :
        (SameTodo(i) /\ i \in run[1].migrated /\ i \in run[2].migrated)
        => Count(tasks[i]) = Count(run[1].start[i]) + 2

(* C25, amended: two prepare_today(D) runs of the same owner that interleave on
   the same open todo of D-1 can both patch it, but each writes the count its
   own query returned plus 1: the count is never more than 1 higher than before
   the two runs, and exactly 1 higher once either run has patched the task. *)
C25_SingleIncrement ==
    \A i \in 1..Len(tasks) :
        SameTodo(i) =>
            /\ Count(tasks[i]) <= Count(run[1].start[i]) + 1
            /\ (i \in run[1].migrated \/ i \in run[2].migrated) =>
                   /\ Count(tasks[i]) = Count(run[1].start[i]) + 1
                   /\ tasks[i].journal_date = run[1].today

\* both runs have patched the same task and have returned
C25_Witness ==
    \E i \in 1..Len(tasks) :
        /\ SameTodo(i)
        /\ i \in run[1].migrated /\ i \in run[2].migrated
        /\ run[1].pc = "done" /\ run[2].pc = "done"

(* C26: the duplicate guard of phase 3 is a check followed by a create, with
   nothing that makes the pair atomic: when two prepare_today(D) runs of the
   same owner, the first of each application instance, have both passed the
   check for routine R before either has created, both create, and the store
   then holds two tasks with parent_task = R.id and journal_date = D. *)
C26_CheckThenActRace ==
    \A R \in 1..Len(tasks) :
        /\ ( /\ run[1].today = run[2].today
             /\ run[1].prev.res = "idle" /\ run[2].prev.res = "idle"
             /\ Logged(run[1], "rt_post", R)
             /\ Logged(run[2], "rt_post", R) )
           => \E i \in run[1].created, j \in run[2].created :
                 /\ i # j
                 /\ {i, j} \subseteq Children(R, run[1].today)
        /\ \A p \in Procs :
              (run[p].pc = "rt_post" /\ Head(run[p].items).id = R)
              => Logged(run[p], "rt_chk", R)

\* two instances of one routine on one date, created by the two runs
C26_Witness ==
    \E R \in 1..Len(tasks) :
        /\ run[1].today = run[2].today
        /\ run[1].prev.res = "idle" /\ run[2].prev.res = "idle"
        /\ run[1].pc = "done" /\ run[2].pc = "done"
        /\ Logged(run[1], "rt_post", R)
        /\ Logged(run[2], "rt_post", R)
        /\ Cardinality(Children(R, run[1].today)) = 2

\* the instances of routine R that a run found dated the day before its date
YesterdaysInstances(r, R) ==
    {i \in 1..Len(r.start) :
        /\ r.start[i].parent_task = R
        /\ r.start[i].kind = "todo"
        /\ r.start[i].owner = Self
        /\ r.start[i].journal_date = r.today - 1}

\* the routines of the user that match the date of the run
DueRoutines(r) ==
    {R \in 1..Len(r.start) :
        /\ r.start[R].kind = "routine"
        /\ r.start[R].owner = Self
        /\ IsDue(r.start[R].recurrence, r.today)}

(* C28: if routine R matches D and an instance of R dated D-1 is still open,
   prepare_today(D) migrates it to D in phase 2, phase 3 finds it and creates
   no new instance, and after the run exactly one child of R is dated D, with
   a migrated_count grown by 1; if yesterday's instance is done it stays on
   D-1 unchanged and the child of R dated D is a fresh instance. *)
C28_MigratedInstanceIsTodays ==
    LET r == run[1]
    IN  r.pc = "done" =>
          \A R \in DueRoutines(r) : \A i \in YesterdaysInstances(r, R) :
              /\ r.start[i].status = "open" =>
                    /\ tasks[i].journal_date = r.today
                    /\ Count(tasks[i]) = Count(r.start[i]) + 1
                    /\ \A j \in r.created : tasks[j].parent_task # R
                    /\ Children(R, r.today) = {i}
              /\ r.start[i].status = "done" =>
                    /\ tasks[i] = r.start[i]
                    /\ \E j \in Children(R, r.today) : j # i

(***************************************************************************)
(* Three runs of two application instances of the user: a run can hold the *)
(* answer of its phase-2 query while two other runs come and go.           *)
(***************************************************************************)
StaleRuns == 3

InitStale == StartWith({sFreqWeekly}, 1, StaleRuns, 0, 0)

SpecStale == InitStale /\ [][NextConc]_vars

\* process p issues the patch of phase 2 for the task at the head of its list
MigPatchStep(p) ==
    /\ run[p].pc = "mig_patch"
    /\ run'[p].log # run[p].log

(* C29: across any sequence or interleaving of prepare_today invocations, a
   task's migrated_count never decreases, every migration patch moves the
   task's journal_date forward by exactly one day, from the run's D-1 to its
   D, and phase 2 never moves a journal_date to an earlier date. *)
C29_MigrationMonotone ==
    [][ /\ \A i \in 1..Len(tasks) : Count(tasks'[i]) >= Count(tasks[i])
        /\ \A p \in Procs :
              MigPatchStep(p) =>
                 LET i == Head(run[p].items).id
                 IN  /\ tasks[i].journal_date = run[p].today - 1
                     /\ tasks'[i].journal_date = tasks[i].journal_date + 1
      ]_vars

(***************************************************************************)
(* Realtime refresh of the window of pb_tkinter_todo.py.  The websocket    *)
(* thread runs on_message for one message at a time; the Tk main loop runs *)
(* _rt_apply when the timer set by after(300, ...) fires, and handles the  *)
(* closing of the window between two callbacks.  after() raises TclError   *)
(* once the application has been destroyed.                                *)
(***************************************************************************)
MaxMsgs == 3

rtFrame == <<tasks, pages, run, budget, contexts, app>>

\* a message arrives and the websocket thread calls on_message
on_message ==
    /\ realtime.ws = "idle"
    /\ realtime.msgs > 0
    /\ realtime' = [realtime EXCEPT !.ws = "check", !.msgs = @ - 1,
                                    !.unsynced = @ \/ realtime.exists,
                                    !.coalesced = FALSE]
    /\ UNCHANGED rtFrame

\* if not self.winfo_exists(): return
OnMessageCheck ==
    /\ realtime.ws = "check"
    /\ realtime' = [realtime EXCEPT !.ws = IF realtime.exists THEN "lock"
                                          ELSE "idle"]
    /\ UNCHANGED rtFrame

\* with self._rt_lock:
OnMessageLock ==
    /\ realtime.ws = "lock"
    /\ realtime.lock = "free"
    /\ realtime' = [realtime EXCEPT !.ws = "test", !.lock = "ws"]
    /\ UNCHANGED rtFrame

\* if not self._rt_pending: self._rt_pending = True
OnMessageTest ==
    /\ realtime.ws = "test"
    /\ realtime' = IF realtime.pending
                   THEN [realtime EXCEPT !.ws = "unlock", !.coalesced = TRUE]
                   ELSE [realtime EXCEPT !.ws = "after", !.pending = TRUE]
    /\ UNCHANGED rtFrame

\* try: self.after(300, self._rt_apply) except tk.TclError: pass
OnMessageAfter ==
    /\ realtime.ws = "after"
    /\ realtime' = [realtime EXCEPT
                      !.ws = "unlock",
                      !.scheduled = IF realtime.exists THEN @ + 1 ELSE @]
    /\ UNCHANGED rtFrame

\* the with block is left and on_message returns
OnMessageUnlock ==
    /\ realtime.ws = "unlock"
    /\ realtime' = [realtime EXCEPT !.ws = "idle", !.lock = "free"]
    /\ UNCHANGED rtFrame

\* the timer fires: the main loop calls _rt_apply
RtApplyFire ==
    /\ realtime.main = "loop"
    /\ realtime.exists
    /\ realtime.scheduled > 0
    /\ realtime' = [realtime EXCEPT !.main = "apply_check", !.scheduled = @ - 1]
    /\ UNCHANGED rtFrame

\* _rt_apply: if not self.winfo_exists(): return
RtApplyCheck ==
    /\ realtime.main = "apply_check"
    /\ realtime' = [realtime EXCEPT !.main = IF realtime.exists THEN "apply_lock"
                                            ELSE "loop"]
    /\ UNCHANGED rtFrame

\* RtApplyReset leaving the flag set
RtApplyResetKeepsFlag ==
    /\ realtime.main = "apply_lock"
    /\ realtime.lock = "free"
    /\ realtime' = [realtime EXCEPT !.main = "sync"]
    /\ UNCHANGED rtFrame

\* _rt_apply: with self._rt_lock: self._rt_pending = False
RtApplyReset ==
    /\ realtime.main = "apply_lock"
    /\ realtime.lock = "free"
    /\ realtime' = [realtime EXCEPT !.main = "sync", !.pending = FALSE]
    /\ UNCHANGED rtFrame

\* _rt_apply: self.sync_all() starts
sync_all ==
    /\ realtime.main = "sync"
    /\ realtime' = [realtime EXCEPT !.main = "loop", !.unsynced = FALSE]
    /\ UNCHANGED rtFrame

\* the user closes the window
destroy ==
    /\ realtime.main = "loop"
    /\ realtime.exists
    /\ realtime' = [realtime EXCEPT !.exists = FALSE]
    /\ UNCHANGED rtFrame

InitRt ==
    /\ tasks = <<>>
    /\ pages = <<>>
    /\ run = [p \in Procs |-> Idle]
    /\ budget = [runs |-> 0, ui |-> 0, fails |-> 0]
    /\ contexts = InitContexts
    /\ app = AppRunning
    /\ realtime = [RtStart EXCEPT !.msgs = MaxMsgs]

\* what the websocket thread does once on_message has been called
WsStep ==
    \/ OnMessageCheck
    \/ OnMessageLock
    \/ OnMessageTest
    \/ OnMessageAfter
    \/ OnMessageUnlock

\* what the main loop does for the timer
MainStep ==
    \/ RtApplyFire
    \/ RtApplyCheck
    \/ RtApplyReset
    \/ sync_all

NextRt ==
    \/ on_message
    \/ WsStep
    \/ MainStep
    \/ destroy

\* both threads keep running: a callback that has been entered goes on, and
\* the main loop fires a timer that is due
SpecRt == InitRt /\ [][NextRt]_vars /\ WF_vars(WsStep) /\ WF_vars(MainStep)

\* an _rt_apply has been called by the main loop and has not yet cleared the flag
ApplyStarted == realtime.main \in {"apply_check", "apply_lock"}

(* C30, as stated: under any interleaving of on_message callbacks and
   _rt_apply, at most one _rt_apply is scheduled and not yet run, _rt_pending
   is true exactly while one is scheduled, and every message received while
   the window exists is followed by a sync_all that starts after the message
   arrived. *)
C30_DebounceExact ==
    /\ [](realtime.scheduled <= 1)
    /\ [](realtime.lock = "free" =>
             (realtime.pending <=> realtime.scheduled = 1))
    /\ (realtime.unsynced ~> ~ realtime.unsynced)

(* C30, amended: at most one _rt_apply is scheduled and not yet run; while the
   window exists, _rt_pending is true exactly from the moment on_message sets
   it until the _rt_apply it scheduled clears it, the time during which that
   _rt_apply has started and has not yet cleared the flag included; and every
   message received while the window exists is followed by a sync_all that
   starts after the message arrived, unless the window is closed first. *)
C30_Debounce ==
    /\ [](realtime.scheduled <= 1)
    /\ [](realtime.exists =>
             (realtime.pending <=>
                 \/ realtime.scheduled = 1
                 \/ ApplyStarted
                 \/ realtime.ws = "after"))
    /\ []((realtime.exists /\ realtime.unsynced) =>
             \/ realtime.ws \in {"check", "lock", "test", "after"}
             \/ realtime.scheduled = 1
             \/ ApplyStarted
             \/ realtime.main = "sync")
    /\ ((realtime.exists /\ realtime.unsynced)
           ~> (~ realtime.unsynced \/ ~ realtime.exists))

\* the last message found the flag set and scheduled nothing, and a sync_all
\* has started since it arrived
C30_Witness ==
    /\ realtime.coalesced
    /\ realtime.ws = "idle"
    /\ ~ realtime.unsynced
    /\ realtime.exists

=============================================================================
